---- MODULE Spec2Model ----
(***************************************************************************)
(* Verification model of the loghistogram package.                         *)
(*                                                                         *)
(* Three variants of the histogram live in the sources:                    *)
(*   - the mutex-guarded Histogram      (src/loghistogram.go 181-398)      *)
(*   - the WindowedHistogram on top     (src/loghistogram_test.go 313-439) *)
(*   - the lock-free (atomic) Histogram (src/unnamed/part_001 1-241)       *)
(*                                                                         *)
(* Floating point.  Sample values are integers x; float64 results are      *)
(* pairs <<g, e>> standing for g/2 + e*tiny (e is the sign of a sub-ulp    *)
(* deviation), or the string "NaN".  The two modelled constructions        *)
(* New(0,7,3) and New(0,3,2) both give shift = -1 and                      *)
(* scale = 1.4426950408889634 in IEEE-754 binary64; LogTimesScale and      *)
(* ExpOverScale tabulate int(math.Log(v)*scale) and math.Exp(b/scale) as   *)
(* binary64 evaluates them for that scale.                                 *)
(***************************************************************************)
EXTENDS Integers, Sequences, FiniteSets, TLC

VARIABLES
    h,          \* the histogram: [shift, scale, lock, n, counts, middle_bucket_percentile]
    prev,       \* WindowedHistogram.prev: [n, counts]
    windowed,   \* TRUE when h is the Histogram embedded in a WindowedHistogram
    high,       \* the high argument h was constructed with (history; the struct does not keep it)
    pc,         \* per thread: the statement it is at
    xarg,       \* per thread: argument x of Accumulate
    ivar,       \* per thread: local i of Accumulate / loop index of lock-free Dup
    pers,       \* per thread: argument list of Percentiles
    ret,        \* per thread: the value about to be returned
    dup,        \* the histogram returned by the last Dup()
    other,      \* a second, independently constructed histogram
    res,        \* the histogram returned by the last package-level Sub(h1, h2)
    fatal,      \* TRUE once a panic has ended the program
    hist        \* history variables (ghost state used only by the properties)

vars == <<h, prev, windowed, high, pc, xarg, ivar, pers, ret, dup, other, res, fatal, hist>>

---------------------------------------------------------------------------
\* Bounds of the model.

NumThreads == 2
MaxAcc == 2
MaxWindow == 2
MaxPers == 2
MaxSeqAcc == 3
MaxAtomicAcc == 3
MaxSubAcc == 2
MaxOtherAcc == 1
MaxSub == 1
UintMod == 65536

Threads == 1..NumThreads

\* the caller of the single-threaded specifications
Main == CHOOSE t \in Threads : \A u \in Threads : t <= u

\* sample values offered to Accumulate: one below low = 0, the in-range values, and above high
Samples == -1..8

\* percentile arguments
Percents == {0, 50, 70, 100}

\* samples offered around Dup and Sub: a low outlier, an in-range value, a high outlier
SubSamples == {-1, 3, 8}

\* the sample values and percentile lists the concurrent threads pass
ThreadSamples == {-1, 1, 3, 8}
ThreadPers == {<<50>>, <<0, 100>>}

\* the arguments of New / NewWindowed that the model constructs: <<low, high, num_buckets>>
NewArgs == {<<0, 7, 3>>, <<0, 3, 2>>}

NaN == "NaN"

---------------------------------------------------------------------------
\* Arithmetic helpers.

RECURSIVE GCD(_, _)
GCD(a, b) == IF b = 0 THEN a ELSE GCD(b, a % b)

\* the float64 quotient num/den of two small non-negative integers, kept as a reduced fraction
Ratio(num, den) ==
    LET g == GCD(num, den) IN <<num \div g, den \div g>>

\* p > r for an integer percentile p and a fraction r
GreaterThanRatio(p, r) == p * r[2] > r[1]

\* uint64 addition and subtraction wrap
UAdd(a, b) == (a + b) % UintMod
USub(a, b) == (a - b) % UintMod

RECURSIVE SumTo(_, _)
SumTo(c, k) == IF k < 0 THEN 0 ELSE c[k] + SumTo(c, k - 1)

LenOf(c) == Cardinality(DOMAIN c)

\* sum of all entries of a counts array
Sum(c) == SumTo(c, LenOf(c) - 1)

Zeros(len) == [k \in 0..(len - 1) |-> 0]

\* comparison of float64 values; every comparison with NaN is false
FLeq(a, b) ==
    /\ a # NaN
    /\ b # NaN
    /\ \/ a[1] < b[1]
       \/ a[1] = b[1] /\ a[2] <= b[2]

---------------------------------------------------------------------------
\* Bucket mapper.

\* int(math.Log(v) * h.scale) for scale = 1.4426950408889634 and v = 1..10
LogTimesScale(v) == <<0, 1, 1, 2, 2, 2, 2, 2, 3, 3>>[v]

\* math.Exp(bucket / h.scale) for scale = 1.4426950408889634, as <<twice the value, sub-ulp sign>>
ExpOverScale(bucket) ==
    CASE bucket = -1 -> <<1, 0>>
      [] bucket = 0 -> <<2, 0>>
      [] bucket = 1 -> <<4, 0>>
      [] bucket = 2 -> <<8, 0>>
      [] bucket = 3 -> <<16, -1>>
      [] bucket = 4 -> <<32, -1>>
      [] bucket = 5 -> <<64, 0>>

valueToBucket(hs, value) ==
    LET v == value - hs.shift IN
    IF v < 1 THEN 0
    ELSE LET b == 1 + LogTimesScale(v) IN
         IF b >= LenOf(hs.counts) THEN LenOf(hs.counts) - 1 ELSE b

bucketToValue(hs, bucket) ==
    LET e == ExpOverScale(bucket) IN <<e[1] + 2 * hs.shift, e[2]>>

\* int(math.Log(v) * h.scale) for a float64 v given as <<twice the value, sub-ulp sign>>:
\* the integers of LogTimesScale, and the two values just below 8 and 16 that
\* math.Exp(3 / h.scale) + 1 and math.Exp(4 / h.scale) + 1 evaluate to
LogTimesScale_Float(v) ==
    CASE v[2] = 0 /\ v[1] % 2 = 0 -> LogTimesScale(v[1] \div 2)
      [] v = <<16, -1>> -> 2
      [] v = <<32, -1>> -> 4

\* valueToBucket of a float64 that bucketToValue returned
valueToBucket_Float(hs, value) ==
    LET v == <<value[1] - 2 * hs.shift, value[2]>> IN
    IF ~FLeq(<<2, 0>>, v) THEN 0
    ELSE LET b == 1 + LogTimesScale_Float(v) IN
         IF b >= LenOf(hs.counts) THEN LenOf(hs.counts) - 1 ELSE b

---------------------------------------------------------------------------
\* Construction (mutex-guarded variant).

\* if high < low || num_buckets <= 0 { panic(...) }, with the check of num_buckets forgotten
init_panics_NoBucketCheck(low, hi, num_buckets) == hi < low

\* if high < low || num_buckets <= 0 { panic(...) }
init_panics(low, hi, num_buckets) == hi < low \/ num_buckets <= 0

\* scale := float64(num_buckets) * (1 - epsilon) / math.Log(high-shift): its binary64
\* value for the two constructions whose bucket mapper is tabulated, the expression otherwise
Scale(low, hi, num_buckets) ==
    IF <<low, hi, num_buckets>> \in NewArgs
    THEN "1.4426950408889634"
    ELSE ToString(num_buckets) \o "*(1-epsilon)/math.Log(" \o ToString(hi - low + 1) \o ")"

Histogram_init(low, hi, num_buckets) ==
    [shift |-> low - 1,
     scale |-> Scale(low, hi, num_buckets),
     lock |-> 0,
     n |-> 0,
     counts |-> Zeros(2 + num_buckets),
     middle_bucket_percentile |-> <<-1, 1>>]

NoPrev == [n |-> 0, counts |-> <<>>]

NewWindowed_prev(hs) == [n |-> 0, counts |-> Zeros(LenOf(hs.counts))]

NoHist ==
    [shift |-> 0, scale |-> "", lock |-> 0, n |-> 0, counts |-> <<>>,
     middle_bucket_percentile |-> <<-1, 1>>]

---------------------------------------------------------------------------
\* Percentile estimator (mutex-guarded Histogram.Percentiles).

\* pn := uint64(p * nf / 100).  The conversion truncates towards zero; of a
\* value <= -1 it is implementation-dependent: amd64 converts through int64
\* and the result wraps, arm64 saturates to 0 (hist.negativeToUint says which).
TargetCount(p, n) ==
    IF p >= 0 THEN (p * n) \div 100
    ELSE LET m == ((-p) * n) \div 100 IN
         IF m = 0 \/ hist.negativeToUint = "saturates" THEN 0 ELSE UintMod - m

\* history of a scan: every read so far was of counts[i] with 0 <= i < len(counts)
\* and did not take the running count below 0
ReadOf(c, i) == IF i \in DOMAIN c THEN c[i] ELSE 0

\* values := make([]float64, len(pers))
MakeValues(ps) == [j \in 1..Len(ps) |-> <<0, 0>>]

\* the return_nans exit: every slot is NaN
NaNs(ps) == [j \in 1..Len(ps) |-> NaN]

\* goto return_nans: nothing was read and nothing is written
ReturnNaNs(hs, ps) ==
    [values |-> NaNs(ps), middle_bucket_percentile |-> hs.middle_bucket_percentile,
     indexes |-> <<>>, reads |-> 0, ok |-> TRUE]

\* a low-to-high inner loop that also advances when a has just reached pn
RECURSIVE AscendingAdvance_StopsLate(_, _, _, _)
AscendingAdvance_StopsLate(c, n, pn, st) ==
    IF st.a <= pn /\ st.i < LenOf(c)
    THEN LET a2 == UAdd(st.a, ReadOf(c, st.i)) IN
         AscendingAdvance_StopsLate(c, n, pn,
             [a |-> a2,
              i |-> st.i + 1,
              mbp |-> IF st.i = LenOf(c) \div 2 THEN Ratio(100 * a2, n) ELSE st.mbp,
              reads |-> st.reads + 1,
              ok |-> st.ok /\ st.i \in DOMAIN c,
              indexes |-> st.indexes])
    ELSE st

\* the inner loop of the low-to-high branch; st = [a, i, mbp] and the history
\* [reads, ok, indexes]: the number of reads of counts, whether all were in range, and the
\* indexes handed to bucketToValue
RECURSIVE AscendingAdvance(_, _, _, _)
AscendingAdvance(c, n, pn, st) ==
    IF st.a < pn /\ st.i < LenOf(c)
    THEN LET a2 == UAdd(st.a, ReadOf(c, st.i)) IN
         AscendingAdvance(c, n, pn,
             [a |-> a2,
              i |-> st.i + 1,
              mbp |-> IF st.i = LenOf(c) \div 2 THEN Ratio(100 * a2, n) ELSE st.mbp,
              reads |-> st.reads + 1,
              ok |-> st.ok /\ st.i \in DOMAIN c,
              indexes |-> st.indexes])
    ELSE st

\* the outer loop of the low-to-high branch, over pers[j..]; values collects the results
RECURSIVE AscendingLoop(_, _, _, _, _, _, _)
AscendingLoop(hs, c, n, ps, j, st, values) ==
    IF j > Len(ps)
    THEN [values |-> values, middle_bucket_percentile |-> st.mbp,
          indexes |-> st.indexes, reads |-> st.reads, ok |-> st.ok]
    ELSE LET st2 == AscendingAdvance(c, n, TargetCount(ps[j], n), st) IN
         AscendingLoop(hs, c, n, ps, j + 1, [st2 EXCEPT !.indexes = Append(@, st2.i)],
                       [values EXCEPT ![j] = bucketToValue(hs, st2.i)])

\* a low-to-high branch without the n == 0 exit
AscendingScan_NoEmptyExit(hs, c, n, ps) ==
    AscendingLoop(hs, c, n, ps, 1,
                  [a |-> 0, i |-> 0, mbp |-> hs.middle_bucket_percentile,
                   reads |-> 0, ok |-> TRUE, indexes |-> <<>>],
                  MakeValues(ps))

\* the whole low-to-high branch on counts c with total n
AscendingScan(hs, c, n, ps) ==
    IF n = 0
    THEN ReturnNaNs(hs, ps)
    ELSE AscendingLoop(hs, c, n, ps, 1,
                       [a |-> 0, i |-> 0, mbp |-> hs.middle_bucket_percentile,
                        reads |-> 0, ok |-> TRUE, indexes |-> <<>>],
                       MakeValues(ps))

\* the inner loop of the high-to-low branch; st = [a, i]
RECURSIVE DescendingAdvance(_, _, _)
DescendingAdvance(c, pn, st) ==
    IF st.a >= pn /\ st.i >= 0
    THEN DescendingAdvance(c, pn,
             [a |-> USub(st.a, ReadOf(c, st.i)),
              i |-> st.i - 1,
              reads |-> st.reads + 1,
              ok |-> st.ok /\ st.i \in DOMAIN c /\ st.a >= ReadOf(c, st.i),
              indexes |-> st.indexes])
    ELSE st

\* the outer loop of the high-to-low branch, over pers[..j] downwards
RECURSIVE DescendingLoop(_, _, _, _, _, _, _)
DescendingLoop(hs, c, n, ps, j, st, values) ==
    IF j < 1
    THEN [values |-> values, middle_bucket_percentile |-> hs.middle_bucket_percentile,
          indexes |-> st.indexes, reads |-> st.reads, ok |-> st.ok]
    ELSE LET st2 == DescendingAdvance(c, TargetCount(ps[j], n), st) IN
         DescendingLoop(hs, c, n, ps, j - 1, [st2 EXCEPT !.indexes = <<st2.i>> \o @],
                        [values EXCEPT ![j] = bucketToValue(hs, st2.i)])

\* a high-to-low branch that starts at i := len(h.counts), one past the last counter
DescendingScan_StartsPastEnd(hs, c, n, ps) ==
    IF n = 0
    THEN ReturnNaNs(hs, ps)
    ELSE DescendingLoop(hs, c, n, ps, Len(ps),
                        [a |-> n, i |-> LenOf(c), reads |-> 0, ok |-> TRUE, indexes |-> <<>>],
                        MakeValues(ps))

\* a high-to-low branch that stores its answers back to front
DescendingScan_ReversedSlots(hs, c, n, ps) ==
    IF n = 0
    THEN ReturnNaNs(hs, ps)
    ELSE LET r == DescendingLoop(hs, c, n, ps, Len(ps),
                                 [a |-> n, i |-> LenOf(c) - 1, reads |-> 0, ok |-> TRUE,
                                  indexes |-> <<>>],
                                 MakeValues(ps)) IN
         [r EXCEPT !.values = [j \in 1..Len(ps) |-> r.values[Len(ps) + 1 - j]]]

\* the whole high-to-low branch on counts c with total n
DescendingScan(hs, c, n, ps) ==
    IF n = 0
    THEN ReturnNaNs(hs, ps)
    ELSE DescendingLoop(hs, c, n, ps, Len(ps),
                        [a |-> n, i |-> LenOf(c) - 1, reads |-> 0, ok |-> TRUE, indexes |-> <<>>],
                        MakeValues(ps))

\* the branch condition with the test 'h.middle_bucket_percentile >= 0' forgotten
TakesDescending_NoEstimateTest(hs, ps) ==
    GreaterThanRatio(ps[1], hs.middle_bucket_percentile)

\* the branch condition: h.middle_bucket_percentile >= 0 && pers[0] > h.middle_bucket_percentile
TakesDescending(hs, ps) ==
    /\ hs.middle_bucket_percentile[1] >= 0
    /\ GreaterThanRatio(ps[1], hs.middle_bucket_percentile)

\* Histogram.Percentiles between Lock and Unlock, for a non-empty pers
Histogram_Percentiles(hs, ps) ==
    IF TakesDescending(hs, ps)
    THEN DescendingScan(hs, hs.counts, hs.n, ps)
    ELSE AscendingScan(hs, hs.counts, hs.n, ps)

---------------------------------------------------------------------------
\* Percentile estimator of the WindowedHistogram.

\* h.counts[i] + h.prev.counts[i]
Combined(cur, prv) == [k \in DOMAIN cur |-> UAdd(cur[k], prv[k])]

\* the inner loop of the windowed high-to-low branch; st = [a, i, mbp]
RECURSIVE WindowedDescendingAdvance(_, _, _, _)
WindowedDescendingAdvance(c, n, pn, st) ==
    IF st.a >= pn /\ st.i >= 0
    THEN WindowedDescendingAdvance(c, n, pn,
             [a |-> USub(st.a, ReadOf(c, st.i)),
              i |-> st.i - 1,
              mbp |-> IF st.i = LenOf(c) \div 2 THEN Ratio(100 * st.a, n) ELSE st.mbp,
              reads |-> st.reads + 1,
              ok |-> st.ok /\ st.i \in DOMAIN c /\ st.a >= ReadOf(c, st.i),
              indexes |-> st.indexes])
    ELSE st

RECURSIVE WindowedDescendingLoop(_, _, _, _, _, _, _)
WindowedDescendingLoop(hs, c, n, ps, j, st, values) ==
    IF j < 1
    THEN [values |-> values, middle_bucket_percentile |-> st.mbp,
          indexes |-> st.indexes, reads |-> st.reads, ok |-> st.ok]
    ELSE LET st2 == WindowedDescendingAdvance(c, n, TargetCount(ps[j], n), st) IN
         WindowedDescendingLoop(hs, c, n, ps, j - 1, [st2 EXCEPT !.indexes = <<st2.i>> \o @],
                                [values EXCEPT ![j] = bucketToValue(hs, st2.i)])

WindowedDescendingScan(hs, c, n, ps) ==
    IF n = 0
    THEN ReturnNaNs(hs, ps)
    ELSE WindowedDescendingLoop(hs, c, n, ps, Len(ps),
                                [a |-> n, i |-> LenOf(c) - 1, mbp |-> hs.middle_bucket_percentile,
                                 reads |-> 0, ok |-> TRUE, indexes |-> <<>>],
                                MakeValues(ps))

\* WindowedHistogram.Percentiles between Lock and Unlock, for a non-empty pers
WindowedHistogram_Percentiles(hs, pv, ps) ==
    IF TakesDescending(hs, ps)
    THEN WindowedDescendingScan(hs, Combined(hs.counts, pv.counts), UAdd(hs.n, pv.n), ps)
    ELSE AscendingScan(hs, Combined(hs.counts, pv.counts), UAdd(hs.n, pv.n), ps)

\* the sorted argument lists offered to Percentiles
RECURSIVE SortedLists(_)
SortedLists(len) ==
    IF len = 0 THEN {<<>>}
    ELSE LET shorter == SortedLists(len - 1) IN
         shorter \cup {Append(s, p) : s \in {q \in shorter : Len(q) = len - 1}, p \in Percents}

IsSorted(ps) == \A j \in 1..(Len(ps) - 1) : ps[j] <= ps[j + 1]

PersLists == {ps \in SortedLists(MaxPers) : Len(ps) >= 1 /\ IsSorted(ps)}

---------------------------------------------------------------------------
\* Mutex-guarded Histogram and WindowedHistogram: the methods, statement by
\* statement, run by the threads.

NoRet == <<>>

Idle(t) == pc[t] = "idle"

\* a Lock that does not wait for the holder
Lock_NoExclusion(t) == h' = [h EXCEPT !.lock = t]

\* h.lock.Lock()
Lock(t) == h.lock = 0 /\ h' = [h EXCEPT !.lock = t]

\* h.lock.Unlock(), returning to the caller
Unlock(t) ==
    /\ h' = [h EXCEPT !.lock = 0]
    /\ pc' = [pc EXCEPT ![t] = "idle"]
    /\ ret' = [ret EXCEPT ![t] = NoRet]

InFlight == Cardinality({t \in Threads : pc[t] \in {"acc_lock", "acc_counts", "acc_n", "acc_unlock"}})

\* Accumulate(x): i := h.valueToBucket(x)
AccumulateCall(t, x) ==
    /\ Idle(t)
    /\ hist.accDone + InFlight < MaxAcc
    /\ pc' = [pc EXCEPT ![t] = "acc_lock"]
    /\ xarg' = [xarg EXCEPT ![t] = x]
    /\ ivar' = [ivar EXCEPT ![t] = valueToBucket(h, x)]
    /\ UNCHANGED <<h, prev, windowed, high, pers, ret, dup, other, res, fatal, hist>>

AccumulateLock(t) ==
    /\ pc[t] = "acc_lock"
    /\ Lock(t)
    /\ pc' = [pc EXCEPT ![t] = "acc_counts"]
    /\ UNCHANGED <<prev, windowed, high, xarg, ivar, pers, ret, dup, other, res, fatal, hist>>

\* h.counts[i]++
IncCounts(hs, i) == [hs EXCEPT !.counts[i] = UAdd(@, 1)]

\* an Accumulate that forgets the total
IncN_Lost(hs) == hs

\* h.n++
IncN(hs) == [hs EXCEPT !.n = UAdd(@, 1)]

AccumulateCounts(t) ==
    /\ pc[t] = "acc_counts"
    /\ h' = IncCounts(h, ivar[t])
    /\ pc' = [pc EXCEPT ![t] = "acc_n"]
    /\ UNCHANGED <<prev, windowed, high, xarg, ivar, pers, ret, dup, other, res, fatal, hist>>

AccumulateN(t) ==
    /\ pc[t] = "acc_n"
    /\ h' = IncN(h)
    /\ pc' = [pc EXCEPT ![t] = "acc_unlock"]
    /\ UNCHANGED <<prev, windowed, high, xarg, ivar, pers, ret, dup, other, res, fatal, hist>>

\* history: one more Accumulate(x) has completed
Completed(x) ==
    [hist EXCEPT !.accDone = @ + 1,
                 !.lowDone = @ + (IF x < h.shift + 1 THEN 1 ELSE 0),
                 !.highDone = @ + (IF x > high THEN 1 ELSE 0)]

AccumulateUnlock(t) ==
    /\ pc[t] = "acc_unlock"
    /\ Unlock(t)
    /\ hist' = Completed(xarg[t])
    /\ xarg' = [xarg EXCEPT ![t] = 0]
    /\ ivar' = [ivar EXCEPT ![t] = 0]
    /\ UNCHANGED <<prev, windowed, high, pers, dup, other, res, fatal>>

\* Count()
CountLock(t) ==
    /\ Idle(t)
    /\ Lock(t)
    /\ pc' = [pc EXCEPT ![t] = "count_read"]
    /\ UNCHANGED <<prev, windowed, high, xarg, ivar, pers, ret, dup, other, res, fatal, hist>>

\* n := h.n
Histogram_Count(hs) == hs.n

\* a windowed Count that answers with the embedded Histogram's n alone
WindowedHistogram_Count_CurrentOnly(hs, pv) == hs.n

\* n := h.n + h.prev.n
WindowedHistogram_Count(hs, pv) == UAdd(hs.n, pv.n)

\* a Count that clears the total it has read
CountRead_Clears(t) ==
    /\ pc[t] = "count_read"
    /\ ret' = [ret EXCEPT ![t] = <<IF windowed THEN WindowedHistogram_Count(h, prev)
                                               ELSE Histogram_Count(h)>>]
    /\ h' = [h EXCEPT !.n = 0]
    /\ pc' = [pc EXCEPT ![t] = "count_unlock"]
    /\ UNCHANGED <<prev, windowed, high, xarg, ivar, pers, dup, other, res, fatal, hist>>

CountRead(t) ==
    /\ pc[t] = "count_read"
    /\ pc' = [pc EXCEPT ![t] = "count_unlock"]
    /\ ret' = [ret EXCEPT ![t] = <<IF windowed THEN WindowedHistogram_Count(h, prev)
                                               ELSE Histogram_Count(h)>>]
    /\ UNCHANGED <<h, prev, windowed, high, xarg, ivar, pers, dup, other, res, fatal, hist>>

CountUnlock(t) ==
    /\ pc[t] = "count_unlock"
    /\ Unlock(t)
    /\ UNCHANGED <<prev, windowed, high, xarg, ivar, pers, dup, other, res, fatal, hist>>

\* Outliers()
OutliersLock(t) ==
    /\ Idle(t)
    /\ Lock(t)
    /\ pc' = [pc EXCEPT ![t] = "outliers_read"]
    /\ UNCHANGED <<prev, windowed, high, xarg, ivar, pers, ret, dup, other, res, fatal, hist>>

\* lo, hi := h.counts[0], h.counts[len(h.counts)-1]
Histogram_Outliers(hs) == <<hs.counts[0], hs.counts[LenOf(hs.counts) - 1]>>

WindowedHistogram_Outliers(hs, pv) ==
    <<UAdd(hs.counts[0], pv.counts[0]),
      UAdd(hs.counts[LenOf(hs.counts) - 1], pv.counts[LenOf(hs.counts) - 1])>>

OutliersRead(t) ==
    /\ pc[t] = "outliers_read"
    /\ pc' = [pc EXCEPT ![t] = "outliers_unlock"]
    /\ ret' = [ret EXCEPT ![t] = IF windowed THEN WindowedHistogram_Outliers(h, prev)
                                             ELSE Histogram_Outliers(h)]
    /\ UNCHANGED <<h, prev, windowed, high, xarg, ivar, pers, dup, other, res, fatal, hist>>

OutliersUnlock(t) ==
    /\ pc[t] = "outliers_unlock"
    /\ Unlock(t)
    /\ UNCHANGED <<prev, windowed, high, xarg, ivar, pers, dup, other, res, fatal, hist>>

\* Percentiles(pers...) with len(pers) > 0, and Percentile(per) = Percentiles(per)[0]
PercentilesLock(t, ps) ==
    /\ Idle(t)
    /\ Lock(t)
    /\ pers' = [pers EXCEPT ![t] = ps]
    /\ pc' = [pc EXCEPT ![t] = "percentiles_scan"]
    /\ UNCHANGED <<prev, windowed, high, xarg, ivar, ret, dup, other, res, fatal, hist>>

PercentilesScan(t) ==
    /\ pc[t] = "percentiles_scan"
    /\ pc' = [pc EXCEPT ![t] = "percentiles_unlock"]
    /\ LET r == IF windowed THEN WindowedHistogram_Percentiles(h, prev, pers[t])
                            ELSE Histogram_Percentiles(h, pers[t]) IN
       /\ ret' = [ret EXCEPT ![t] = r.values]
       /\ h' = [h EXCEPT !.middle_bucket_percentile = r.middle_bucket_percentile]
    /\ UNCHANGED <<prev, windowed, high, xarg, ivar, pers, dup, other, res, fatal, hist>>

PercentilesUnlock(t) ==
    /\ pc[t] = "percentiles_unlock"
    /\ Unlock(t)
    /\ pers' = [pers EXCEPT ![t] = <<>>]
    /\ UNCHANGED <<prev, windowed, high, xarg, ivar, dup, other, res, fatal, hist>>

\* Dup()
DupLock(t) ==
    /\ Idle(t)
    /\ Lock(t)
    /\ pc' = [pc EXCEPT ![t] = "dup_copy"]
    /\ UNCHANGED <<prev, windowed, high, xarg, ivar, pers, ret, dup, other, res, fatal, hist>>

\* a Dup that allocates the new counts array and forgets the loop that fills it
Histogram_Dup_NoCopyLoop(hs) == [hs EXCEPT !.counts = Zeros(LenOf(hs.counts))]

\* h2 := *h; h2.counts = a copy of h.counts.  The struct copy includes the lock field.
Histogram_Dup(hs) == hs

DupCopy(t) ==
    /\ pc[t] = "dup_copy"
    /\ pc' = [pc EXCEPT ![t] = "dup_unlock"]
    /\ ret' = [ret EXCEPT ![t] = Histogram_Dup(h)]
    /\ UNCHANGED <<h, prev, windowed, high, xarg, ivar, pers, dup, other, res, fatal, hist>>

DupUnlock(t) ==
    /\ pc[t] = "dup_unlock"
    /\ Unlock(t)
    /\ UNCHANGED <<prev, windowed, high, xarg, ivar, pers, dup, other, res, fatal, hist>>

\* Window()
WindowLock(t) ==
    /\ Idle(t)
    /\ windowed
    /\ hist.windows < MaxWindow
    /\ Lock(t)
    /\ pc' = [pc EXCEPT ![t] = "window_swap"]
    /\ UNCHANGED <<prev, windowed, high, xarg, ivar, pers, ret, dup, other, res, fatal, hist>>

\* zero h.prev.counts; h.prev.counts, h.counts = h.counts, h.prev.counts
WindowSwap(t) ==
    /\ pc[t] = "window_swap"
    /\ prev' = [prev EXCEPT !.counts = h.counts]
    /\ h' = [h EXCEPT !.counts = Zeros(LenOf(prev.counts))]
    /\ pc' = [pc EXCEPT ![t] = "window_n"]
    /\ UNCHANGED <<windowed, high, xarg, ivar, pers, ret, dup, other, res, fatal, hist>>

\* h.n = 0; h.prev.n = h.n -- two assignments in the wrong order where the code has one
\* tuple assignment
WindowN_ZeroFirst(t) ==
    /\ pc[t] = "window_n"
    /\ prev' = [prev EXCEPT !.n = 0]
    /\ h' = [h EXCEPT !.n = 0]
    /\ pc' = [pc EXCEPT ![t] = "window_unlock"]
    /\ hist' = [hist EXCEPT !.discarded = @ + prev.n]
    /\ UNCHANGED <<windowed, high, xarg, ivar, pers, ret, dup, other, res, fatal>>

\* h.prev.n, h.n = h.n, 0; history: the total of the buffer that was prev is gone
WindowN(t) ==
    /\ pc[t] = "window_n"
    /\ prev' = [prev EXCEPT !.n = h.n]
    /\ h' = [h EXCEPT !.n = 0]
    /\ pc' = [pc EXCEPT ![t] = "window_unlock"]
    /\ hist' = [hist EXCEPT !.discarded = @ + prev.n]
    /\ UNCHANGED <<windowed, high, xarg, ivar, pers, ret, dup, other, res, fatal>>

WindowUnlock(t) ==
    /\ pc[t] = "window_unlock"
    /\ Unlock(t)
    /\ hist' = [hist EXCEPT !.windows = @ + 1]
    /\ UNCHANGED <<prev, windowed, high, xarg, ivar, pers, dup, other, res, fatal>>

NoHistory ==
    [accDone |-> 0, lowDone |-> 0, highDone |-> 0, windows |-> 0,
     branch |-> "none", calls |-> <<>>,
     live |-> FALSE, diffed |-> FALSE, k |-> 0, fresh |-> NoHist, subs |-> 0,
     phase |-> 0, maxA |-> 0, before |-> NaN,
     sinceWindow |-> 0, beforeWindow |-> 0, discarded |-> 0,
     negativeToUint |-> "wraps", seen |-> {}, scanned |-> FALSE,
     mem |-> [cur |-> 0, old |-> 0, heap |-> <<>>, num_buckets |-> 0]]

\* after New(low, high, num_buckets) or NewWindowed(low, high, num_buckets)
InitThreads ==
    /\ \E args \in NewArgs :
          /\ h = Histogram_init(args[1], args[2], args[3])
          /\ high = args[2]
    /\ windowed \in BOOLEAN
    /\ prev = IF windowed THEN NewWindowed_prev(h) ELSE NoPrev
    /\ pc = [t \in Threads |-> "idle"]
    /\ xarg = [t \in Threads |-> 0]
    /\ ivar = [t \in Threads |-> 0]
    /\ pers = [t \in Threads |-> <<>>]
    /\ ret = [t \in Threads |-> NoRet]
    /\ dup = NoHist
    /\ other = NoHist
    /\ res = NoHist
    /\ fatal = FALSE
    /\ hist = NoHistory

NextThreads ==
    \/ \E t \in Threads, x \in ThreadSamples : AccumulateCall(t, x)
    \/ \E t \in Threads : AccumulateLock(t)
    \/ \E t \in Threads : AccumulateCounts(t)
    \/ \E t \in Threads : AccumulateN(t)
    \/ \E t \in Threads : AccumulateUnlock(t)
    \/ \E t \in Threads : CountLock(t)
    \/ \E t \in Threads : CountRead(t)
    \/ \E t \in Threads : CountUnlock(t)
    \/ \E t \in Threads : OutliersLock(t)
    \/ \E t \in Threads : OutliersRead(t)
    \/ \E t \in Threads : OutliersUnlock(t)
    \/ \E t \in Threads, ps \in ThreadPers : PercentilesLock(t, ps)
    \/ \E t \in Threads : PercentilesScan(t)
    \/ \E t \in Threads : PercentilesUnlock(t)
    \/ \E t \in Threads : DupLock(t)
    \/ \E t \in Threads : DupCopy(t)
    \/ \E t \in Threads : DupUnlock(t)
    \/ \E t \in Threads : WindowLock(t)
    \/ \E t \in Threads : WindowSwap(t)
    \/ \E t \in Threads : WindowN(t)
    \/ \E t \in Threads : WindowUnlock(t)

SpecThreads == InitThreads /\ [][NextThreads]_vars

---------------------------------------------------------------------------
\* Dup() next to concurrent Accumulate and Window calls, the caller of Dup
\* keeping the copy it was handed.

\* h.lock.Unlock(); return &h2 -- the caller stores the copy in dup
DupReturn(t) ==
    /\ pc[t] = "dup_unlock"
    /\ Unlock(t)
    /\ dup' = ret[t]
    /\ UNCHANGED <<prev, windowed, high, xarg, ivar, pers, other, res, fatal, hist>>

NextDup ==
    \/ \E t \in Threads, x \in ThreadSamples : AccumulateCall(t, x)
    \/ \E t \in Threads : AccumulateLock(t)
    \/ \E t \in Threads : AccumulateCounts(t)
    \/ \E t \in Threads : AccumulateN(t)
    \/ \E t \in Threads : AccumulateUnlock(t)
    \/ \E t \in Threads : DupLock(t)
    \/ \E t \in Threads : DupCopy(t)
    \/ \E t \in Threads : DupReturn(t)
    \/ \E t \in Threads : WindowLock(t)
    \/ \E t \in Threads : WindowSwap(t)
    \/ \E t \in Threads : WindowN(t)
    \/ \E t \in Threads : WindowUnlock(t)

SpecDup == InitThreads /\ [][NextDup]_vars

---------------------------------------------------------------------------
\* Calls on the copy that Dup() handed out, next to calls on the original.

\* h2.Count() on the copy: h2.lock.Lock() either acquires the copy's own lock,
\* reads n, unlocks and returns, or finds it locked and parks the caller
CopyCount(t) ==
    /\ Idle(t)
    /\ dup # NoHist
    /\ IF dup.lock = 0
       THEN /\ pc' = [pc EXCEPT ![t] = "idle"]
            /\ ret' = [ret EXCEPT ![t] = <<Histogram_Count(dup)>>]
       ELSE /\ pc' = [pc EXCEPT ![t] = "copy_parked"]
            /\ UNCHANGED ret
    /\ UNCHANGED <<h, prev, windowed, high, xarg, ivar, pers, dup, other, res, fatal, hist>>

InitCopy == InitThreads /\ ~windowed

NextCopy ==
    \/ \E t \in Threads, x \in ThreadSamples : AccumulateCall(t, x)
    \/ \E t \in Threads : AccumulateLock(t)
    \/ \E t \in Threads : AccumulateCounts(t)
    \/ \E t \in Threads : AccumulateN(t)
    \/ \E t \in Threads : AccumulateUnlock(t)
    \/ \E t \in Threads : DupLock(t)
    \/ \E t \in Threads : DupCopy(t)
    \/ \E t \in Threads : DupReturn(t)
    \/ \E t \in Threads : CopyCount(t)

SpecCopy == InitCopy /\ [][NextCopy]_vars

---------------------------------------------------------------------------
\* The threads under a fair scheduler: a thread that holds the lock keeps
\* running, and a thread waiting in h.lock.Lock() gets the lock if it is freed
\* again and again (sync.Mutex hands the lock to a starving waiter).

\* thread t completes the scan of Percentiles: in a behaviour of the threads
\* this is a PercentilesScan(t) step, and it is enabled exactly when that is
PercentilesScanDone(t) ==
    /\ pc[t] = "percentiles_scan"
    /\ pc' = [pc EXCEPT ![t] = "percentiles_unlock"]

\* the statements of thread t between Lock and the return
Continue(t) ==
    \/ AccumulateCounts(t) \/ AccumulateN(t) \/ AccumulateUnlock(t)
    \/ CountRead(t) \/ CountUnlock(t)
    \/ OutliersRead(t) \/ OutliersUnlock(t)
    \/ PercentilesScanDone(t) \/ PercentilesUnlock(t)
    \/ DupCopy(t) \/ DupReturn(t)
    \/ WindowSwap(t) \/ WindowN(t) \/ WindowUnlock(t)

FairThreads == \A t \in Threads : WF_pc(Continue(t)) /\ SF_pc(AccumulateLock(t))

\* the calls of the threads, on the histogram and on the copy Dup returned,
\* with one sample value and one percentile list: which bucket is counted and
\* which percentile is asked for has no part in the locking
NextFair ==
    \/ \E t \in Threads, x \in {3} : AccumulateCall(t, x)
    \/ \E t \in Threads : AccumulateLock(t)
    \/ \E t \in Threads : AccumulateCounts(t)
    \/ \E t \in Threads : AccumulateN(t)
    \/ \E t \in Threads : AccumulateUnlock(t)
    \/ \E t \in Threads : CountLock(t)
    \/ \E t \in Threads : CountRead(t)
    \/ \E t \in Threads : CountUnlock(t)
    \/ \E t \in Threads : OutliersLock(t)
    \/ \E t \in Threads : OutliersRead(t)
    \/ \E t \in Threads : OutliersUnlock(t)
    \/ \E t \in Threads, ps \in {<<50>>} : PercentilesLock(t, ps)
    \/ \E t \in Threads : PercentilesScan(t)
    \/ \E t \in Threads : PercentilesUnlock(t)
    \/ \E t \in Threads : DupLock(t)
    \/ \E t \in Threads : DupCopy(t)
    \/ \E t \in Threads : DupReturn(t)
    \/ \E t \in Threads : CopyCount(t)
    \/ \E t \in Threads : WindowLock(t)
    \/ \E t \in Threads : WindowSwap(t)
    \/ \E t \in Threads : WindowN(t)
    \/ \E t \in Threads : WindowUnlock(t)

SpecThreadsFair == InitThreads /\ [][NextFair]_vars /\ FairThreads

---------------------------------------------------------------------------
\* Mutex-guarded Histogram and WindowedHistogram called from one thread:
\* every action is one whole call, Lock to Unlock.  pc[Main] names the call
\* that returned last, ret[Main] what it returned.

Returned(op, ps, value) ==
    /\ pc' = [pc EXCEPT ![Main] = op]
    /\ pers' = [pers EXCEPT ![Main] = ps]
    /\ ret' = [ret EXCEPT ![Main] = value]

\* Accumulate(x)
Histogram_Accumulate(hs, x) == IncN(IncCounts(hs, valueToBucket(hs, x)))

Accumulate(x) ==
    /\ hist.accDone < MaxSeqAcc
    /\ h' = Histogram_Accumulate(h, x)
    /\ hist' = [Completed(x) EXCEPT !.branch = "none", !.calls = <<>>, !.sinceWindow = @ + 1]
    /\ Returned("Accumulate", <<>>, NoRet)
    /\ UNCHANGED <<prev, windowed, high, xarg, ivar, dup, other, res, fatal>>

Count ==
    /\ Returned("Count", <<>>, IF windowed THEN WindowedHistogram_Count(h, prev)
                                           ELSE Histogram_Count(h))
    /\ hist' = [hist EXCEPT !.branch = "none", !.calls = <<>>]
    /\ UNCHANGED <<h, prev, windowed, high, xarg, ivar, dup, other, res, fatal>>

Outliers ==
    /\ Returned("Outliers", <<>>, IF windowed THEN WindowedHistogram_Outliers(h, prev)
                                              ELSE Histogram_Outliers(h))
    /\ hist' = [hist EXCEPT !.branch = "none", !.calls = <<>>]
    /\ UNCHANGED <<h, prev, windowed, high, xarg, ivar, dup, other, res, fatal>>

\* history: the single-percentile call that returned immediately before this call, if any
Remember ==
    IF pc[Main] = "Percentiles" /\ Len(pers[Main]) = 1
    THEN <<[p |-> pers[Main][1], v |-> ret[Main][1]]>>
    ELSE <<>>

Percentiles(ps) ==
    /\ LET r == IF windowed THEN WindowedHistogram_Percentiles(h, prev, ps)
                            ELSE Histogram_Percentiles(h, ps) IN
       /\ h' = [h EXCEPT !.middle_bucket_percentile = r.middle_bucket_percentile]
       /\ Returned("Percentiles", ps, r.values)
    /\ hist' = [hist EXCEPT !.branch = IF TakesDescending(h, ps) THEN "desc" ELSE "asc",
                            !.calls = Remember, !.scanned = TRUE]
    /\ UNCHANGED <<prev, windowed, high, xarg, ivar, dup, other, res, fatal>>

\* after New(low, high, num_buckets)
Init ==
    /\ \E args \in NewArgs :
          /\ h = Histogram_init(args[1], args[2], args[3])
          /\ high = args[2]
    /\ windowed = FALSE
    /\ prev = NoPrev
    /\ pc = [t \in Threads |-> "idle"]
    /\ xarg = [t \in Threads |-> 0]
    /\ ivar = [t \in Threads |-> 0]
    /\ pers = [t \in Threads |-> <<>>]
    /\ ret = [t \in Threads |-> NoRet]
    /\ dup = NoHist
    /\ other = NoHist
    /\ res = NoHist
    /\ fatal = FALSE
    /\ hist = NoHistory

Next ==
    \/ \E x \in Samples : Accumulate(x)
    \/ Count
    \/ Outliers
    \/ \E ps \in PersLists : Percentiles(ps)

Spec == Init /\ [][Next]_vars

\* Accumulate and Percentiles alone, with fewer sample values (one below low,
\* two inside, one above high) and four sorted percentile lists
NextScan ==
    \/ \E x \in ThreadSamples : Accumulate(x)
    \/ \E ps \in {<<50>>, <<0, 70>>, <<0, 100>>, <<50, 100>>} : Percentiles(ps)

SpecScan == Init /\ [][NextScan]_vars

---------------------------------------------------------------------------
\* WindowedHistogram called from one thread: the calls of Spec and Window().

\* a Window that swaps the arrays without zeroing the previous one first
WindowedHistogram_Window_NoZero(hs, pv) ==
    [h |-> [hs EXCEPT !.counts = pv.counts, !.n = 0],
     prev |-> [n |-> hs.n, counts |-> hs.counts]]

\* Window(): zero prev.counts; swap the two arrays; h.prev.n, h.n = h.n, 0
WindowedHistogram_Window(hs, pv) ==
    [h |-> [hs EXCEPT !.counts = Zeros(LenOf(pv.counts)), !.n = 0],
     prev |-> [n |-> hs.n, counts |-> hs.counts]]

Window ==
    /\ windowed
    /\ hist.windows < MaxWindow
    /\ LET w == WindowedHistogram_Window(h, prev) IN
       /\ h' = w.h
       /\ prev' = w.prev
    /\ hist' = [hist EXCEPT !.windows = @ + 1, !.branch = "none", !.calls = <<>>,
                            !.beforeWindow = hist.sinceWindow, !.sinceWindow = 0,
                            !.discarded = @ + prev.n]
    /\ Returned("Window", <<>>, NoRet)
    /\ UNCHANGED <<windowed, high, xarg, ivar, dup, other, res, fatal>>

\* after NewWindowed(low, high, num_buckets)
InitWindowed ==
    /\ \E args \in NewArgs :
          /\ h = Histogram_init(args[1], args[2], args[3])
          /\ high = args[2]
    /\ windowed = TRUE
    /\ prev = NewWindowed_prev(h)
    /\ pc = [t \in Threads |-> "idle"]
    /\ xarg = [t \in Threads |-> 0]
    /\ ivar = [t \in Threads |-> 0]
    /\ pers = [t \in Threads |-> <<>>]
    /\ ret = [t \in Threads |-> NoRet]
    /\ dup = NoHist
    /\ other = NoHist
    /\ res = NoHist
    /\ fatal = FALSE
    /\ hist = NoHistory

\* the percentile lists passed to the WindowedHistogram
WindowPers == {<<50>>, <<0, 100>>, <<50, 100>>}

NextWindowed ==
    \/ \E x \in ThreadSamples : Accumulate(x)
    \/ Window
    \/ Count
    \/ Outliers
    \/ \E ps \in WindowPers : Percentiles(ps)

SpecWindowed == InitWindowed /\ [][NextWindowed]_vars

\* the same calls on a histogram of either variant
SpecEither == InitThreads /\ [][NextWindowed]_vars

---------------------------------------------------------------------------
\* Percentiles called with percentiles outside 0...100, on the base Histogram
\* and on the WindowedHistogram, on either kind of machine.

\* sorted percentile lists with entries below 0 and above 100; 10 gives the
\* target count 0 on the small totals of the model
RangePers == {<<-150>>, <<-10>>, <<150>>, <<10, 150>>}

InitRange ==
    /\ \E args \in NewArgs :
          /\ h = Histogram_init(args[1], args[2], args[3])
          /\ high = args[2]
    /\ windowed \in BOOLEAN
    /\ prev = IF windowed THEN NewWindowed_prev(h) ELSE NoPrev
    /\ pc = [t \in Threads |-> "idle"]
    /\ xarg = [t \in Threads |-> 0]
    /\ ivar = [t \in Threads |-> 0]
    /\ pers = [t \in Threads |-> <<>>]
    /\ ret = [t \in Threads |-> NoRet]
    /\ dup = NoHist
    /\ other = NoHist
    /\ res = NoHist
    /\ fatal = FALSE
    /\ \E conv \in {"wraps", "saturates"} : hist = [NoHistory EXCEPT !.negativeToUint = conv]

NextRange ==
    \/ \E x \in SubSamples : hist.accDone < MaxSubAcc /\ Accumulate(x)
    \/ Window
    \/ \E ps \in RangePers : Percentiles(ps)

SpecRange == InitRange /\ [][NextRange]_vars

---------------------------------------------------------------------------
\* Accumulate called with float64 values that are not finite.

\* valueToBucket for value = +Inf, -Inf or NaN.  -Inf - shift < 1.0 gives 0.
\* For +Inf and NaN 'v < 1.0' is false and math.Log(v) * h.scale is +Inf resp.
\* NaN, which int cannot represent: the conversion is implementation-dependent.
\* amd64 yields the smallest int for both; arm64 yields 0 for NaN and the
\* largest int for +Inf, and 1 + the largest int wraps to the smallest.
valueToBucket_NonFinite(hs, value) ==
    IF value = "-Inf" THEN 0
    ELSE LET minInt == -(UintMod \div 2)
             b == IF hist.negativeToUint = "wraps" THEN 1 + minInt
                  ELSE IF value = "NaN" THEN 1 ELSE minInt IN
         IF b >= LenOf(hs.counts) THEN LenOf(hs.counts) - 1 ELSE b

\* Accumulate(x) for such a value: with an index outside counts the statement
\* h.counts[i]++ panics, after h.lock.Lock() and before h.lock.Unlock()
AccumulateNonFinite(x) ==
    /\ ~fatal
    /\ hist.accDone < MaxSeqAcc
    /\ LET i == valueToBucket_NonFinite(h, x) IN
       /\ ivar' = [ivar EXCEPT ![Main] = i]
       /\ IF i \in DOMAIN h.counts
          THEN /\ h' = IncN(IncCounts(h, i))
               /\ hist' = [hist EXCEPT !.accDone = @ + 1, !.sinceWindow = @ + 1,
                                       !.lowDone = @ + (IF x = "-Inf" THEN 1 ELSE 0),
                                       !.branch = "none", !.calls = <<>>]
               /\ fatal' = FALSE
          ELSE /\ h' = [h EXCEPT !.lock = Main]
               /\ hist' = [hist EXCEPT !.branch = "none", !.calls = <<>>]
               /\ fatal' = TRUE
    /\ Returned("Accumulate", <<>>, NoRet)
    /\ UNCHANGED <<prev, windowed, high, xarg, dup, other, res>>

NextNonFinite ==
    \/ \E x \in ThreadSamples : ~fatal /\ Accumulate(x)
    \/ \E x \in {"+Inf", "-Inf", "NaN"} : AccumulateNonFinite(x)

SpecNonFinite == InitRange /\ [][NextNonFinite]_vars

---------------------------------------------------------------------------
\* Construction with arbitrary arguments: New and NewWindowed, called once.

\* the arguments offered to New and NewWindowed, valid and invalid
ConstructLows == {-1, 0, 1}
ConstructHighs == -2..3
ConstructBuckets == -1..3

\* h := &Histogram{}; h.init(low, high, num_buckets); return h
New(low, hi, num_buckets) ==
    /\ Idle(Main)
    /\ IF init_panics(low, hi, num_buckets)
       THEN /\ fatal' = TRUE
            /\ UNCHANGED <<h, high>>
       ELSE /\ h' = Histogram_init(low, hi, num_buckets)
            /\ high' = hi
            /\ fatal' = FALSE
    /\ Returned("New", <<low, hi, num_buckets>>, NoRet)
    /\ UNCHANGED <<prev, windowed, xarg, ivar, dup, other, res, hist>>

\* h := &WindowedHistogram{}; h.Histogram.init(low, high, num_buckets);
\* h.prev.counts = make([]uint64, len(h.counts)); return h
NewWindowed(low, hi, num_buckets) ==
    /\ Idle(Main)
    /\ IF init_panics(low, hi, num_buckets)
       THEN /\ fatal' = TRUE
            /\ UNCHANGED <<h, high, prev, windowed>>
       ELSE /\ h' = Histogram_init(low, hi, num_buckets)
            /\ high' = hi
            /\ prev' = NewWindowed_prev(h')
            /\ windowed' = TRUE
            /\ fatal' = FALSE
    /\ Returned("NewWindowed", <<low, hi, num_buckets>>, NoRet)
    /\ UNCHANGED <<xarg, ivar, dup, other, res, hist>>

\* before any histogram is constructed
InitNew ==
    /\ h = NoHist
    /\ high = 0
    /\ windowed = FALSE
    /\ prev = NoPrev
    /\ pc = [t \in Threads |-> "idle"]
    /\ xarg = [t \in Threads |-> 0]
    /\ ivar = [t \in Threads |-> 0]
    /\ pers = [t \in Threads |-> <<>>]
    /\ ret = [t \in Threads |-> NoRet]
    /\ dup = NoHist
    /\ other = NoHist
    /\ res = NoHist
    /\ fatal = FALSE
    /\ hist = NoHistory

NextNew ==
    \/ \E low \in ConstructLows, hi \in ConstructHighs, nb \in ConstructBuckets :
          New(low, hi, nb)
    \/ \E low \in ConstructLows, hi \in ConstructHighs, nb \in ConstructBuckets :
          NewWindowed(low, hi, nb)

SpecNew == InitNew /\ [][NextNew]_vars

---------------------------------------------------------------------------
\* Lock-free Histogram (atomic counters).  The struct has no lock; the lock
\* field of the record stays 0.

\* New(low, high, num_buckets) of the lock-free variant
AtomicHistogram_New(low, hi, num_buckets) ==
    [shift |-> low - 1,
     scale |-> "1.4426950408889634",
     lock |-> 0,
     n |-> 0,
     counts |-> Zeros(2 + num_buckets),
     middle_bucket_percentile |-> <<-1, 1>>]

\* an Accumulate that bumps the total where it should bump the bucket
AtomicAddCounts_TotalFirst(hs, i) == [hs EXCEPT !.n = UAdd(@, 1)]

\* atomic.AddUint64(&h.counts[i], 1)
AtomicAddCounts(hs, i) == [hs EXCEPT !.counts[i] = UAdd(@, 1)]

\* atomic.AddUint64(&h.n, 1)
AtomicAddN(hs) == [hs EXCEPT !.n = UAdd(@, 1)]

\* Count(): atomic.LoadUint64(&h.n)
AtomicHistogram_Count(hs) == hs.n

\* Percentiles(pers...) of the lock-free variant, for a non-empty pers
AtomicHistogram_Percentiles(hs, ps) ==
    IF TakesDescending(hs, ps)
    THEN DescendingScan(hs, hs.counts, hs.n, ps)
    ELSE AscendingScan(hs, hs.counts, hs.n, ps)

\* Dup() run without interference: the counts are copied and n is their sum
AtomicHistogram_Dup(hs) == [hs EXCEPT !.n = Sum(hs.counts) % UintMod]

\* the loop of the in-place Sub over the indexes k.. of h2.counts
RECURSIVE SubLoop(_, _, _)
SubLoop(hs, h2, k) ==
    IF k >= LenOf(h2.counts) THEN hs
    ELSE SubLoop([hs EXCEPT !.counts[k] = USub(@, h2.counts[k]),
                            !.n = USub(@, h2.counts[k])],
                 h2, k + 1)

\* an in-place Sub that leaves the total alone
RECURSIVE SubLoop_KeepN(_, _, _)
SubLoop_KeepN(hs, h2, k) ==
    IF k >= LenOf(h2.counts) THEN hs
    ELSE SubLoop_KeepN([hs EXCEPT !.counts[k] = USub(@, h2.counts[k])], h2, k + 1)

Histogram_Sub_KeepN(hs, h2) ==
    IF LenOf(hs.counts) # LenOf(h2.counts)
    THEN [panic |-> TRUE, h |-> hs]
    ELSE [panic |-> FALSE, h |-> SubLoop_KeepN(hs, h2, 0)]

\* an in-place Sub without the size check, subtracting over the indexes both arrays have
RECURSIVE SubLoop_Common(_, _, _)
SubLoop_Common(hs, h2, k) ==
    IF k >= LenOf(h2.counts) \/ k >= LenOf(hs.counts) THEN hs
    ELSE SubLoop_Common([hs EXCEPT !.counts[k] = USub(@, h2.counts[k]),
                                   !.n = USub(@, h2.counts[k])],
                        h2, k + 1)

Histogram_Sub_NoSizeCheck(hs, h2) ==
    [panic |-> LenOf(hs.counts) < LenOf(h2.counts), h |-> SubLoop_Common(hs, h2, 0)]

\* h.Sub(h2): panics on different sizes, otherwise h -= h2 in place
Histogram_Sub(hs, h2) ==
    IF LenOf(hs.counts) # LenOf(h2.counts)
    THEN [panic |-> TRUE, h |-> hs]
    ELSE [panic |-> FALSE, h |-> SubLoop(hs, h2, 0)]

\* a package-level Sub that forgets h.n = n and keeps the total copied from h1
PackageSub_TotalOfH1(h1, h2) ==
    IF LenOf(h1.counts) # LenOf(h2.counts)
    THEN [panic |-> TRUE, h |-> NoHist]
    ELSE [panic |-> FALSE,
          h |-> [h1 EXCEPT !.counts = [k \in DOMAIN h1.counts |-> USub(h1.counts[k], h2.counts[k])]]]

\* Sub(h1, h2): panics on different sizes, otherwise returns a new histogram h1 - h2
PackageSub(h1, h2) ==
    IF LenOf(h1.counts) # LenOf(h2.counts)
    THEN [panic |-> TRUE, h |-> NoHist]
    ELSE LET c == [k \in DOMAIN h1.counts |-> USub(h1.counts[k], h2.counts[k])] IN
         [panic |-> FALSE, h |-> [h1 EXCEPT !.counts = c, !.n = Sum(c) % UintMod]]

---------------------------------------------------------------------------
\* Lock-free Histogram under concurrent threads.

AtomicInFlight == Cardinality({t \in Threads : pc[t] \in {"add_counts", "add_n"}})

\* Accumulate(x): i := h.valueToBucket(x)
AtomicAccumulateCall(t, x) ==
    /\ Idle(t)
    /\ hist.accDone + AtomicInFlight < MaxAtomicAcc
    /\ pc' = [pc EXCEPT ![t] = "add_counts"]
    /\ ivar' = [ivar EXCEPT ![t] = valueToBucket(h, x)]
    /\ UNCHANGED <<h, prev, windowed, high, xarg, pers, ret, dup, other, res, fatal, hist>>

AtomicAccumulateCounts(t) ==
    /\ pc[t] = "add_counts"
    /\ h' = AtomicAddCounts(h, ivar[t])
    /\ pc' = [pc EXCEPT ![t] = "add_n"]
    /\ hist' = IF hist.seen # {} /\ \E u \in Threads : pc[u] = "dup_loop"
               THEN [hist EXCEPT !.seen = @ \cup {h'.counts}]
               ELSE hist
    /\ UNCHANGED <<prev, windowed, high, xarg, ivar, pers, ret, dup, other, res, fatal>>

AtomicAccumulateN(t) ==
    /\ pc[t] = "add_n"
    /\ h' = AtomicAddN(h)
    /\ pc' = [pc EXCEPT ![t] = "idle"]
    /\ ivar' = [ivar EXCEPT ![t] = 0]
    /\ hist' = [hist EXCEPT !.accDone = @ + 1]
    /\ UNCHANGED <<prev, windowed, high, xarg, pers, ret, dup, other, res, fatal>>

\* Count(), the load and the return
AtomicCountLoad(t) ==
    /\ Idle(t)
    /\ ret' = [ret EXCEPT ![t] = AtomicHistogram_Count(h)]
    /\ pc' = [pc EXCEPT ![t] = "count_return"]
    /\ UNCHANGED <<h, prev, windowed, high, xarg, ivar, pers, dup, other, res, fatal, hist>>

AtomicCountReturn(t) ==
    /\ pc[t] = "count_return"
    /\ ret' = [ret EXCEPT ![t] = NoRet]
    /\ pc' = [pc EXCEPT ![t] = "idle"]
    /\ UNCHANGED <<h, prev, windowed, high, xarg, ivar, pers, dup, other, res, fatal, hist>>

\* Dup(): h2 := *h; counts := make([]uint64, len(h2.counts)); n := 0
AtomicDupCall(t) ==
    /\ Idle(t)
    /\ \A u \in Threads : pc[u] # "dup_loop"
    /\ dup' = [h EXCEPT !.counts = Zeros(LenOf(h.counts)), !.n = 0]
    /\ ivar' = [ivar EXCEPT ![t] = 0]
    /\ pc' = [pc EXCEPT ![t] = "dup_loop"]
    /\ hist' = IF hist.seen # {} THEN [hist EXCEPT !.seen = {h.counts}] ELSE hist
    /\ UNCHANGED <<h, prev, windowed, high, xarg, pers, ret, other, res, fatal>>

\* one iteration: c := atomic.LoadUint64(&h2.counts[i]); n += c; counts[i] = c
AtomicDupLoop(t) ==
    /\ pc[t] = "dup_loop"
    /\ ivar[t] < LenOf(h.counts)
    /\ dup' = [dup EXCEPT !.counts[ivar[t]] = h.counts[ivar[t]],
                          !.n = UAdd(@, h.counts[ivar[t]])]
    /\ ivar' = [ivar EXCEPT ![t] = @ + 1]
    /\ UNCHANGED <<h, prev, windowed, high, pc, xarg, pers, ret, other, res, fatal, hist>>

\* h2.counts = counts; h2.n = n; return &h2
AtomicDupReturn(t) ==
    /\ pc[t] = "dup_loop"
    /\ ivar[t] = LenOf(h.counts)
    /\ ivar' = [ivar EXCEPT ![t] = 0]
    /\ pc' = [pc EXCEPT ![t] = "idle"]
    /\ UNCHANGED <<h, prev, windowed, high, xarg, pers, ret, dup, other, res, fatal, hist>>

InitAtomic ==
    /\ \E args \in NewArgs :
          /\ h = AtomicHistogram_New(args[1], args[2], args[3])
          /\ high = args[2]
    /\ windowed = FALSE
    /\ prev = NoPrev
    /\ pc = [t \in Threads |-> "idle"]
    /\ xarg = [t \in Threads |-> 0]
    /\ ivar = [t \in Threads |-> 0]
    /\ pers = [t \in Threads |-> <<>>]
    /\ ret = [t \in Threads |-> NoRet]
    /\ dup = NoHist
    /\ other = NoHist
    /\ res = NoHist
    /\ fatal = FALSE
    /\ hist = NoHistory

NextAtomic ==
    \/ \E t \in Threads, x \in ThreadSamples : AtomicAccumulateCall(t, x)
    \/ \E t \in Threads : AtomicAccumulateCounts(t)
    \/ \E t \in Threads : AtomicAccumulateN(t)
    \/ \E t \in Threads : AtomicCountLoad(t)
    \/ \E t \in Threads : AtomicCountReturn(t)
    \/ \E t \in Threads : AtomicDupCall(t)
    \/ \E t \in Threads : AtomicDupLoop(t)
    \/ \E t \in Threads : AtomicDupReturn(t)

SpecAtomic == InitAtomic /\ [][NextAtomic]_vars

\* The same threads, with the counts the original holds during a Dup call
\* recorded in hist.seen (recorded only when hist.seen starts non-empty).
InitSnapshot ==
    /\ \E args \in NewArgs :
          /\ h = AtomicHistogram_New(args[1], args[2], args[3])
          /\ high = args[2]
    /\ windowed = FALSE
    /\ prev = NoPrev
    /\ pc = [t \in Threads |-> "idle"]
    /\ xarg = [t \in Threads |-> 0]
    /\ ivar = [t \in Threads |-> 0]
    /\ pers = [t \in Threads |-> <<>>]
    /\ ret = [t \in Threads |-> NoRet]
    /\ dup = NoHist
    /\ other = NoHist
    /\ res = NoHist
    /\ fatal = FALSE
    /\ hist = [NoHistory EXCEPT !.seen = {h.counts}]

SpecSnapshot == InitSnapshot /\ [][NextAtomic]_vars

---------------------------------------------------------------------------
\* WindowedHistogram with its two slices as references into a heap of arrays.
\* hist.mem.heap[id] is the array with identity id; hist.mem.cur is the array
\* h.counts points to, hist.mem.old the array h.prev.counts points to.  A
\* write goes to the heap, and h.counts and prev.counts are what the two
\* references then show.  Every action is one whole call.

\* NewWindowed: init makes array 1 for h.counts, then
\* h.prev.counts = make([]uint64, len(h.counts)) makes array 2
InitBuffers ==
    /\ \E args \in NewArgs :
          /\ h = Histogram_init(args[1], args[2], args[3])
          /\ high = args[2]
          /\ hist = [NoHistory EXCEPT !.mem = [cur |-> 1, old |-> 2,
                                               heap |-> <<Zeros(2 + args[3]),
                                                          Zeros(LenOf(h.counts))>>,
                                               num_buckets |-> args[3]]]
    /\ windowed = TRUE
    /\ prev = [n |-> 0, counts |-> hist.mem.heap[hist.mem.old]]
    /\ pc = [t \in Threads |-> "idle"]
    /\ xarg = [t \in Threads |-> 0]
    /\ ivar = [t \in Threads |-> 0]
    /\ pers = [t \in Threads |-> <<>>]
    /\ ret = [t \in Threads |-> NoRet]
    /\ dup = NoHist
    /\ other = NoHist
    /\ res = NoHist
    /\ fatal = FALSE

\* i := h.valueToBucket(x); h.counts[i]++ through the reference h.counts; h.n++
Accumulate_Buffers(x) ==
    /\ hist.accDone < MaxSeqAcc
    /\ LET m == hist.mem
           i == valueToBucket(h, x)
           heap2 == [m.heap EXCEPT ![m.cur] = [@ EXCEPT ![i] = UAdd(@, 1)]] IN
       /\ h' = IncN([h EXCEPT !.counts = heap2[m.cur]])
       /\ prev' = [prev EXCEPT !.counts = heap2[m.old]]
       /\ hist' = [hist EXCEPT !.accDone = @ + 1, !.sinceWindow = @ + 1, !.mem.heap = heap2]
    /\ Returned("Accumulate", <<>>, NoRet)
    /\ UNCHANGED <<windowed, high, xarg, ivar, dup, other, res, fatal>>

\* a Window that sets h.prev.counts = h.counts in place of the exchange
Window_SharesBuffer ==
    /\ hist.windows < MaxWindow
    /\ LET m == hist.mem
           zeroed == [m.heap EXCEPT ![m.old] = Zeros(LenOf(@))] IN
       /\ h' = [h EXCEPT !.counts = zeroed[m.cur], !.n = 0]
       /\ prev' = [n |-> h.n, counts |-> zeroed[m.cur]]
       /\ hist' = [hist EXCEPT !.windows = @ + 1, !.sinceWindow = 0,
                               !.mem = [m EXCEPT !.heap = zeroed, !.old = m.cur]]
    /\ Returned("Window", <<>>, NoRet)
    /\ UNCHANGED <<windowed, high, xarg, ivar, dup, other, res, fatal>>

\* for i := range h.prev.counts { h.prev.counts[i] = 0 };
\* h.prev.counts, h.counts = h.counts, h.prev.counts; h.prev.n, h.n = h.n, 0
Window_Buffers ==
    /\ hist.windows < MaxWindow
    /\ LET m == hist.mem
           zeroed == [m.heap EXCEPT ![m.old] = Zeros(LenOf(@))] IN
       /\ h' = [h EXCEPT !.counts = zeroed[m.old], !.n = 0]
       /\ prev' = [n |-> h.n, counts |-> zeroed[m.cur]]
       /\ hist' = [hist EXCEPT !.windows = @ + 1, !.sinceWindow = 0,
                               !.mem = [m EXCEPT !.heap = zeroed, !.cur = m.old, !.old = m.cur]]
    /\ Returned("Window", <<>>, NoRet)
    /\ UNCHANGED <<windowed, high, xarg, ivar, dup, other, res, fatal>>

NextBuffers ==
    \/ \E x \in ThreadSamples : Accumulate_Buffers(x)
    \/ Window_Buffers

SpecBuffers == InitBuffers /\ [][NextBuffers]_vars

---------------------------------------------------------------------------
\* Lock-free Histogram called from one thread: snapshots and differences.
\* Every action is one whole call; a panic ends the program.

\* Accumulate(x) of the lock-free variant
AtomicHistogram_Accumulate(hs, x) == AtomicAddN(AtomicAddCounts(hs, valueToBucket(hs, x)))

\* a histogram of the shape of hs that has received nothing
Fresh(hs) == [hs EXCEPT !.counts = Zeros(LenOf(hs.counts)), !.n = 0,
                        !.middle_bucket_percentile = <<-1, 1>>]

AtomicAccumulate(x) ==
    /\ ~fatal
    /\ hist.accDone < MaxSubAcc
    /\ h' = AtomicHistogram_Accumulate(h, x)
    /\ hist' = [hist EXCEPT !.accDone = @ + 1,
                            !.k = IF hist.live THEN @ + 1 ELSE @,
                            !.fresh = IF hist.live THEN AtomicHistogram_Accumulate(@, x) ELSE @,
                            !.diffed = FALSE]
    /\ Returned("Accumulate", <<>>, NoRet)
    /\ UNCHANGED <<prev, windowed, high, xarg, ivar, dup, other, res, fatal>>

AccumulateOther(x) ==
    /\ ~fatal
    /\ other.n < MaxOtherAcc
    /\ other' = AtomicHistogram_Accumulate(other, x)
    /\ Returned("other.Accumulate", <<>>, NoRet)
    /\ UNCHANGED <<h, prev, windowed, high, xarg, ivar, dup, res, fatal, hist>>

\* dup := h.Dup()
TakeDup ==
    /\ ~fatal
    /\ dup' = AtomicHistogram_Dup(h)
    /\ hist' = [hist EXCEPT !.live = TRUE, !.k = 0, !.fresh = Fresh(h), !.diffed = FALSE]
    /\ Returned("Dup", <<>>, NoRet)
    /\ UNCHANGED <<h, prev, windowed, high, xarg, ivar, other, res, fatal>>

\* h.Sub(dup)
SubDup ==
    /\ ~fatal
    /\ hist.subs < MaxSub
    /\ dup # NoHist
    /\ LET r == Histogram_Sub(h, dup) IN
       /\ h' = r.h
       /\ fatal' = r.panic
    /\ hist' = [hist EXCEPT !.live = FALSE, !.diffed = hist.live, !.subs = @ + 1]
    /\ Returned("Sub(dup)", <<>>, NoRet)
    /\ UNCHANGED <<prev, windowed, high, xarg, ivar, dup, other, res>>

\* h.Sub(other)
SubOther ==
    /\ ~fatal
    /\ hist.subs < MaxSub
    /\ LET r == Histogram_Sub(h, other) IN
       /\ h' = r.h
       /\ fatal' = r.panic
    /\ hist' = [hist EXCEPT !.live = FALSE, !.diffed = FALSE, !.subs = @ + 1]
    /\ Returned("Sub(other)", <<>>, NoRet)
    /\ UNCHANGED <<prev, windowed, high, xarg, ivar, dup, other, res>>

\* res := Sub(h, dup)
PackageSubDup ==
    /\ ~fatal
    /\ hist.subs < MaxSub
    /\ dup # NoHist
    /\ LET r == PackageSub(h, dup) IN
       /\ res' = IF r.panic THEN res ELSE r.h
       /\ fatal' = r.panic
    /\ Returned("Sub(h, dup)", <<>>, NoRet)
    /\ UNCHANGED <<h, prev, windowed, high, xarg, ivar, dup, other, hist>>

\* res := Sub(h, other)
PackageSubOther ==
    /\ ~fatal
    /\ hist.subs < MaxSub
    /\ LET r == PackageSub(h, other) IN
       /\ res' = IF r.panic THEN res ELSE r.h
       /\ fatal' = r.panic
    /\ Returned("Sub(h, other)", <<>>, NoRet)
    /\ UNCHANGED <<h, prev, windowed, high, xarg, ivar, dup, other, hist>>

\* h and other are constructed independently
InitSub ==
    /\ \E args \in NewArgs :
          /\ h = AtomicHistogram_New(args[1], args[2], args[3])
          /\ high = args[2]
    /\ \E args \in NewArgs : other = AtomicHistogram_New(args[1], args[2], args[3])
    /\ windowed = FALSE
    /\ prev = NoPrev
    /\ pc = [t \in Threads |-> "idle"]
    /\ xarg = [t \in Threads |-> 0]
    /\ ivar = [t \in Threads |-> 0]
    /\ pers = [t \in Threads |-> <<>>]
    /\ ret = [t \in Threads |-> NoRet]
    /\ dup = NoHist
    /\ res = NoHist
    /\ fatal = FALSE
    /\ hist = NoHistory

NextSub ==
    \/ \E x \in SubSamples : AtomicAccumulate(x)
    \/ \E x \in SubSamples : AccumulateOther(x)
    \/ TakeDup
    \/ SubDup
    \/ SubOther
    \/ PackageSubDup
    \/ PackageSubOther

SpecSub == InitSub /\ [][NextSub]_vars

---------------------------------------------------------------------------
\* The median scenario on the lock-free Histogram: four in-range samples,
\* Dup, three larger in-range samples, Percentile(50), Sub(dup), Percentile(50).

InRange(x) == h.shift + 1 <= x /\ x <= high

MedianFirst(x) ==
    /\ hist.phase = 0
    /\ hist.accDone < 4
    /\ InRange(x)
    /\ h' = AtomicHistogram_Accumulate(h, x)
    /\ hist' = [hist EXCEPT !.accDone = @ + 1,
                            !.maxA = IF hist.accDone = 0 \/ x > @ THEN x ELSE @]
    /\ Returned("Accumulate", <<>>, NoRet)
    /\ UNCHANGED <<prev, windowed, high, xarg, ivar, dup, other, res, fatal>>

MedianDup ==
    /\ hist.phase = 0
    /\ hist.accDone = 4
    /\ dup' = AtomicHistogram_Dup(h)
    /\ hist' = [hist EXCEPT !.phase = 1]
    /\ Returned("Dup", <<>>, NoRet)
    /\ UNCHANGED <<h, prev, windowed, high, xarg, ivar, other, res, fatal>>

MedianSecond(x) ==
    /\ hist.phase = 1
    /\ hist.k < 3
    /\ InRange(x)
    /\ x > hist.maxA
    /\ h' = AtomicHistogram_Accumulate(h, x)
    /\ hist' = [hist EXCEPT !.k = @ + 1]
    /\ Returned("Accumulate", <<>>, NoRet)
    /\ UNCHANGED <<prev, windowed, high, xarg, ivar, dup, other, res, fatal>>

\* Percentile(50) before the subtraction
MedianBefore ==
    /\ hist.phase = 1
    /\ hist.k = 3
    /\ LET r == AtomicHistogram_Percentiles(h, <<50>>) IN
       /\ h' = [h EXCEPT !.middle_bucket_percentile = r.middle_bucket_percentile]
       /\ hist' = [hist EXCEPT !.phase = 2, !.before = r.values[1]]
       /\ Returned("Percentile", <<50>>, r.values)
    /\ UNCHANGED <<prev, windowed, high, xarg, ivar, dup, other, res, fatal>>

MedianSub ==
    /\ hist.phase = 2
    /\ LET r == Histogram_Sub(h, dup) IN
       /\ h' = r.h
       /\ fatal' = r.panic
    /\ hist' = [hist EXCEPT !.phase = 3]
    /\ Returned("Sub(dup)", <<>>, NoRet)
    /\ UNCHANGED <<prev, windowed, high, xarg, ivar, dup, other, res>>

\* Percentile(50) after the subtraction
MedianAfter ==
    /\ hist.phase = 3
    /\ LET r == AtomicHistogram_Percentiles(h, <<50>>) IN
       /\ h' = [h EXCEPT !.middle_bucket_percentile = r.middle_bucket_percentile]
       /\ Returned("Percentile", <<50>>, r.values)
    /\ hist' = [hist EXCEPT !.phase = 4]
    /\ UNCHANGED <<prev, windowed, high, xarg, ivar, dup, other, res, fatal>>

NextMedian ==
    \/ \E x \in Samples : MedianFirst(x)
    \/ MedianDup
    \/ \E x \in Samples : MedianSecond(x)
    \/ MedianBefore
    \/ MedianSub
    \/ MedianAfter

SpecMedian == InitAtomic /\ [][NextMedian]_vars

---------------------------------------------------------------------------
\* Properties of the mutex-guarded variant.

Total == IF windowed THEN UAdd(h.n, prev.n) ELSE h.n

\* C1: in the base Histogram, under any interleaving of the threads, the value
\* Count() reads under the lock is exactly the number of Accumulate calls that
\* have completed, outliers included.
CountIsCompletedAccumulates ==
    \A t \in Threads :
        (pc[t] = "count_unlock" /\ ~windowed) => ret[t] = <<hist.accDone>>

\* a Count that saw one completed outlier sample while another Accumulate waits for the lock
CountIsCompletedAccumulates_Witness ==
    \E t \in Threads, u \in Threads :
        /\ pc[t] = "count_unlock"
        /\ ~windowed
        /\ ret[t] = <<1>>
        /\ hist.lowDone + hist.highDone = 1
        /\ pc[u] = "acc_lock"

\* C2: whenever the lock is free, n is the sum of all entries of counts, and in
\* the windowed variant prev.n is the sum of all entries of prev.counts.
TotalIsSumWhenUnlocked ==
    h.lock = 0 =>
        /\ h.n = Sum(h.counts)
        /\ windowed => prev.n = Sum(prev.counts)

\* the lock is free after a Window and an Accumulate on each side of it, one more pending
TotalIsSumWhenUnlocked_Witness ==
    /\ h.lock = 0
    /\ windowed
    /\ h.n > 0
    /\ prev.n > 0
    /\ hist.windows > 0

\* C7: with a zero total, Percentiles returns NaN in every slot and changes
\* neither counts, n, prev nor middle_bucket_percentile, in either branch; the
\* lock is free once the call has returned.
EmptyGivesNaN ==
    [][\A t \in Threads :
          /\ (pc[t] = "percentiles_scan" /\ pc'[t] = "percentiles_unlock" /\ Total = 0)
                => (ret'[t] = NaNs(pers[t]) /\ h' = h /\ prev' = prev)
          /\ (pc[t] = "percentiles_unlock" /\ pc'[t] = "idle")
                => h'.lock = 0]_vars

\* an emptied windowed histogram answers NaN from the high-to-low branch
EmptyGivesNaN_Witness ==
    \E t \in Threads :
        /\ pc[t] = "percentiles_unlock"
        /\ windowed
        /\ hist.windows = 2
        /\ Total = 0
        /\ TakesDescending(h, pers[t])
        /\ ret[t] = NaNs(pers[t])

\* C4: Outliers() returns exactly the number of accumulated samples below low
\* and the number above high.
OutliersCountOutOfRange ==
    pc[Main] = "Outliers" => ret[Main] = <<hist.lowDone, hist.highDone>>

\* C5: two single-percentile calls made back to back on a non-empty histogram
\* are ordered like their arguments.
MonotoneAcrossCalls ==
    (pc[Main] = "Percentiles" /\ Len(pers[Main]) = 1 /\ hist.calls # <<>> /\ h.n > 0) =>
        LET p1 == hist.calls[1].p
            v1 == hist.calls[1].v
            p2 == pers[Main][1]
            v2 == ret[Main][1]
        IN /\ p1 <= p2 => FLeq(v1, v2)
           /\ p2 <= p1 => FLeq(v2, v1)

\* C6: what Percentiles returned on a non-empty histogram is what the
\* low-to-high branch and the high-to-low branch each yield on the same counts.
ScanDirectionIrrelevant ==
    (pc[Main] = "Percentiles" /\ h.n > 0) =>
        /\ ret[Main] = AscendingScan(h, h.counts, h.n, pers[Main]).values
        /\ ret[Main] = DescendingScan(h, h.counts, h.n, pers[Main]).values

---------------------------------------------------------------------------
\* Properties of the lock-free variant.

\* the Accumulate calls that have incremented their bucket but not yet n
Pending == Cardinality({t \in Threads : pc[t] = "add_n"})

\* C3: with Accumulate running concurrently as two atomic increments, n never
\* exceeds the sum of counts, the sum exceeds n by at most the calls that are
\* between their two increments, and with no call in flight both equal the
\* number of Accumulate calls made.
BoundedSkew ==
    /\ h.n <= Sum(h.counts)
    /\ Sum(h.counts) <= h.n + Pending
    /\ AtomicInFlight = 0 => (h.n = Sum(h.counts) /\ h.n = hist.accDone)

\* two calls are between their increments while a third has finished
BoundedSkew_Witness ==
    /\ Pending = 2
    /\ h.n = 1
    /\ Sum(h.counts) = 3

\* C8: after d = h.Dup(), k further Accumulate calls and h.Sub(d), Count() is k
\* and every bucket of h is the bucket of a fresh histogram that received only
\* those k samples.
SubOfSnapshotIsDifference ==
    (pc[Main] = "Sub(dup)" /\ hist.diffed) =>
        /\ ~fatal
        /\ AtomicHistogram_Count(h) = hist.k
        /\ h.counts = hist.fresh.counts
        /\ \A b \in DOMAIN h.counts : h.counts[b] <= hist.k

\* a snapshot with a sample in it was subtracted after one further sample
SubOfSnapshotIsDifference_Witness ==
    /\ pc[Main] = "Sub(dup)"
    /\ hist.diffed
    /\ dup.n > 0
    /\ hist.k = 1
    /\ h.n = 1

\* C9: in the median scenario Percentile(50) after the subtraction is at least
\* Percentile(50) just before it.
MedianDoesNotDecrease ==
    hist.phase = 4 => FLeq(hist.before, ret[Main][1])

DifferentSizes == LenOf(h.counts) # LenOf(other.counts)

\* C10: a Sub of two histograms of different sizes, in place or package-level,
\* panics and leaves both histograms and the result untouched.
SubOfDifferentSizesPanics ==
    [][(~fatal /\ DifferentSizes /\ pc'[Main] \in {"Sub(other)", "Sub(h, other)"})
          => (fatal' /\ h' = h /\ other' = other /\ dup' = dup /\ res' = res)]_vars

\* the in-place Sub of non-empty histograms of different sizes has panicked
SubOfDifferentSizesPanics_Witness ==
    /\ fatal
    /\ DifferentSizes
    /\ pc[Main] = "Sub(other)"
    /\ h.n > 0
    /\ other.n > 0

---------------------------------------------------------------------------
\* Properties of construction.

\* C11: New and NewWindowed panic when high < low or the bucket count is not
\* positive, and then no counts array exists; otherwise the histogram has
\* bucketCount + 2 counters, all zero, n = 0 and middle_bucket_percentile = -1.
ConstructionChecksArguments ==
    pc[Main] \in {"New", "NewWindowed"} =>
        LET low == pers[Main][1]
            hi == pers[Main][2]
            bucketCount == pers[Main][3]
        IN IF hi < low \/ bucketCount <= 0
           THEN /\ fatal
                /\ LenOf(h.counts) = 0
                /\ LenOf(prev.counts) = 0
           ELSE /\ ~fatal
                /\ LenOf(h.counts) = bucketCount + 2
                /\ \A i \in DOMAIN h.counts : h.counts[i] = 0
                /\ h.n = 0
                /\ h.middle_bucket_percentile = <<-1, 1>>
                /\ pc[Main] = "NewWindowed" =>
                      (LenOf(prev.counts) = bucketCount + 2 /\ Sum(prev.counts) = 0 /\ prev.n = 0)

\* NewWindowed has panicked on a bucket count of 0 with high >= low
ConstructionChecksArguments_Witness ==
    /\ pc[Main] = "NewWindowed"
    /\ fatal
    /\ pers[Main][3] = 0
    /\ pers[Main][2] >= pers[Main][1]

---------------------------------------------------------------------------
\* Further properties of the lock-free variant.

\* C12: the package-level Sub(h1, h2) on histograms of equal size changes
\* neither operand and returns the counts and n that the in-place Sub would
\* leave in a copy of h1; a later Accumulate on h1 leaves the result alone.
PackageSubIsInPlaceSubOfCopy ==
    [][/\ (~fatal /\ ~fatal' /\ pc'[Main] = "Sub(h, dup)") =>
            /\ h' = h /\ dup' = dup /\ other' = other
            /\ res'.counts = Histogram_Sub(h, dup).h.counts
            /\ res'.n = Histogram_Sub(h, dup).h.n
       /\ (~fatal /\ ~fatal' /\ pc'[Main] = "Sub(h, other)") =>
            /\ h' = h /\ dup' = dup /\ other' = other
            /\ res'.counts = Histogram_Sub(h, other).h.counts
            /\ res'.n = Histogram_Sub(h, other).h.n
       /\ pc'[Main] = "Accumulate" => res' = res]_vars

\* Sub(h, dup) returned the one sample accumulated after a non-empty snapshot
PackageSubIsInPlaceSubOfCopy_Witness ==
    /\ pc[Main] = "Sub(h, dup)"
    /\ ~fatal
    /\ dup.n = 1
    /\ h.n = 2
    /\ res.n = 1
    /\ Sum(res.counts) = 1

---------------------------------------------------------------------------
\* Further properties of the mutex-guarded variant.

\* C13: next to concurrent Accumulate and Window calls, the copy Dup makes has
\* the counts and the n the original has at the instant of the copy, so its n
\* is the sum of its counts; the copy handed to the caller is that copy, and
\* no later step of any Accumulate or Window changes it.
DupIsConsistentSnapshot ==
    [][\A t \in Threads :
          /\ pc'[t] = "dup_unlock" =>
                /\ ret'[t].counts = h'.counts
                /\ ret'[t].n = h'.n
                /\ ret'[t].n = Sum(ret'[t].counts)
          /\ (pc[t] = "dup_unlock" /\ pc'[t] = "idle") =>
                /\ dup'.counts = ret[t].counts
                /\ dup'.n = ret[t].n
                /\ dup'.n = Sum(dup'.counts)
          /\ (pc[t] # pc'[t] /\ pc[t] # "dup_unlock") => dup' = dup]_vars

\* a copy holding one sample is kept while the original has moved on by a
\* Window and a further Accumulate
DupIsConsistentSnapshot_Witness ==
    /\ windowed
    /\ dup.n = 1
    /\ Sum(dup.counts) = 1
    /\ hist.windows = 1
    /\ prev.n = 1
    /\ h.n = 1
    /\ h.counts # dup.counts
    /\ h.lock = 0

---------------------------------------------------------------------------
\* Properties of the WindowedHistogram called from one thread.

\* C14: Count() of a WindowedHistogram is the number of Accumulate calls made
\* since the second-most-recent Window() (since construction when fewer than
\* two were made): sinceWindow counts those after the most recent Window,
\* beforeWindow those between the two most recent ones.
WindowedCountSpansTwoWindows ==
    (windowed /\ pc[Main] = "Count") => ret[Main] = hist.sinceWindow + hist.beforeWindow

\* Count() answers 2 after Accumulate, Window, Accumulate, Window, Accumulate
WindowedCountSpansTwoWindows_Witness ==
    /\ windowed
    /\ pc[Main] = "Count"
    /\ hist.windows = 2
    /\ hist.accDone = 3
    /\ hist.sinceWindow = 1
    /\ hist.beforeWindow = 1
    /\ ret[Main] = 2

\* C15: right after Window(), prev holds the counts and n that were current
\* right before it, and the current counts and n are all zero: nothing of the
\* old prev is left in either buffer.
WindowMovesCurrentToPrev ==
    [][(windowed /\ pc'[Main] = "Window") =>
          /\ prev'.counts = h.counts
          /\ prev'.n = h.n
          /\ DOMAIN h'.counts = DOMAIN h.counts
          /\ \A i \in DOMAIN h'.counts : h'.counts[i] = 0
          /\ h'.n = 0]_vars

\* a second Window() has discarded a previous buffer that held a sample
WindowMovesCurrentToPrev_Witness ==
    /\ windowed
    /\ pc[Main] = "Window"
    /\ hist.windows = 2
    /\ hist.accDone = 2
    /\ hist.beforeWindow = 1
    /\ prev.n = 1
    /\ h.n = 0

---------------------------------------------------------------------------
\* Properties of the WindowedHistogram under concurrent threads.

\* the Accumulate calls that have incremented n and not yet returned
Counted == Cardinality({t \in Threads : pc[t] = "acc_unlock"})

\* C16: with Accumulate and Window interleaved, no sample is dropped and none
\* is counted twice: the samples accumulated are n + prev.n + the totals of the
\* buffers Window has discarded, and when the lock is free the same holds of
\* the bucket counters.
NoSampleLostByWindow ==
    windowed =>
        /\ h.n + prev.n + hist.discarded = hist.accDone + Counted
        /\ h.lock = 0 =>
              Sum(h.counts) + Sum(prev.counts) + hist.discarded = hist.accDone

\* a second Window() has just discarded a buffer with one sample while an
\* Accumulate that computed its bucket earlier waits for the lock
NoSampleLostByWindow_Witness ==
    \E t \in Threads, u \in Threads :
        /\ windowed
        /\ pc[t] = "window_unlock"
        /\ pc[u] = "acc_lock"
        /\ hist.discarded = 1
        /\ hist.accDone = 1

---------------------------------------------------------------------------
\* The WindowedHistogram against the base Histogram.

\* the base Histogram holding the combined counts and totals of both buffers
CombinedHistogram(hs, pv) ==
    [hs EXCEPT !.counts = Combined(hs.counts, pv.counts), !.n = UAdd(hs.n, pv.n)]

\* C17: every windowed Count, Outliers and Percentiles call returns what the
\* base call returns on the combined histogram, and Percentiles leaves the
\* middle_bucket_percentile the base call would leave.
WindowedRefinesBase ==
    [][windowed =>
          /\ pc'[Main] = "Count" => ret'[Main] = Histogram_Count(CombinedHistogram(h, prev))
          /\ pc'[Main] = "Outliers" => ret'[Main] = Histogram_Outliers(CombinedHistogram(h, prev))
          /\ pc'[Main] = "Percentiles" =>
                LET r == Histogram_Percentiles(CombinedHistogram(h, prev), pers'[Main]) IN
                /\ ret'[Main] = r.values
                /\ h'.middle_bucket_percentile = r.middle_bucket_percentile]_vars

---------------------------------------------------------------------------
\* Frame of the queries (mutex-guarded base and windowed variants).

\* thread t takes a step of Count, Outliers or Percentiles
QueryStep(t) ==
    /\ pc'[t] # pc[t]
    /\ \/ pc[t] \in {"count_read", "count_unlock", "outliers_read", "outliers_unlock",
                      "percentiles_scan", "percentiles_unlock"}
       \/ pc'[t] \in {"count_read", "outliers_read", "percentiles_scan"}

\* C18: no step of Count, Outliers or Percentiles changes counts, prev.counts,
\* n, prev.n, shift, scale or the length of counts, and only the scan of
\* Percentiles changes middle_bucket_percentile; counters and totals change
\* only in steps of Accumulate and Window.
QueriesLeaveCountersAlone ==
    [][/\ \A t \in Threads :
            QueryStep(t) =>
                /\ h'.counts = h.counts
                /\ h'.n = h.n
                /\ prev' = prev
                /\ h'.shift = h.shift
                /\ h'.scale = h.scale
                /\ pc[t] # "percentiles_scan" =>
                      h'.middle_bucket_percentile = h.middle_bucket_percentile
       /\ (h'.counts # h.counts \/ h'.n # h.n \/ prev' # prev) =>
            \E t \in Threads : pc[t] \in {"acc_counts", "acc_n", "window_swap", "window_n"}]_vars

\* Percentiles has just set middle_bucket_percentile on a WindowedHistogram with
\* samples in both buffers
QueriesLeaveCountersAlone_Witness ==
    \E t \in Threads :
        /\ windowed
        /\ pc[t] = "percentiles_unlock"
        /\ h.middle_bucket_percentile # <<-1, 1>>
        /\ h.n = 1
        /\ prev.n = 1

---------------------------------------------------------------------------
\* Percentiles outside 0...100.

\* C19: on a histogram with at least one sample, every requested percentile
\* below 0 or above 100 gets NaN in its result slot.
OutOfRangePercentileGivesNaN ==
    (pc[Main] = "Percentiles" /\ Total > 0) =>
        \A j \in 1..Len(pers[Main]) :
            (pers[Main][j] < 0 \/ pers[Main][j] > 100) => ret[Main][j] = NaN

\* what the Percentiles call of the variant at hand computes
ScanOf(ps) ==
    IF windowed THEN WindowedHistogram_Percentiles(h, prev, ps)
                ELSE Histogram_Percentiles(h, ps)

\* C20: on a non-empty histogram, with target counts of 0 or beyond n and in
\* either direction, every read of counts is within the array, the running
\* count never goes below 0, the scan ends after at most len(counts) reads,
\* and every index handed to bucketToValue lies in -1..len(counts).
ScanStaysInBounds ==
    [][(pc'[Main] = "Percentiles" /\ Total > 0) =>
          LET r == ScanOf(pers'[Main]) IN
          /\ ret'[Main] = r.values
          /\ r.ok
          /\ r.reads <= LenOf(h.counts)
          /\ Len(r.indexes) = Len(pers'[Main])
          /\ \A k \in 1..Len(r.indexes) : r.indexes[k] \in -1..LenOf(h.counts)]_vars

\* the high-to-low branch has served a target count beyond n and then a
\* target count of 0, ending at index -1
ScanStaysInBounds_Witness ==
    /\ pc[Main] = "Percentiles"
    /\ hist.branch = "desc"
    /\ pers[Main] = <<10, 150>>
    /\ Total > 0
    /\ ret[Main][1] = bucketToValue(h, -1)
    /\ ret[Main][2] = bucketToValue(h, LenOf(h.counts) - 1)

---------------------------------------------------------------------------
\* The copy's lock.

\* C21: the histogram returned by the mutex-guarded Dup() has its lock in the
\* unlocked state, so that no call on the copy is left waiting for it.
DupReturnsUnlockedCopy ==
    /\ dup # NoHist => dup.lock = 0
    /\ \A t \in Threads : pc[t] # "copy_parked"

---------------------------------------------------------------------------
\* Mutex discipline.

Quiet == \A t \in Threads : Idle(t)

\* C22: under a fair scheduler every call that a thread has begun returns
\* (Accumulate, Count, Outliers, Percentiles with its NaN exit, Window, Dup, on
\* the histogram and on a copy Dup returned), and whenever no call is
\* executing the lock of the histogram and the lock of the copy are free.
MutexDiscipline ==
    /\ \A t \in Threads : (~Idle(t)) ~> Idle(t)
    /\ [](Quiet => (h.lock = 0 /\ (dup # NoHist => dup.lock = 0)))

---------------------------------------------------------------------------
\* What the two scans compute.

\* the smallest i in 0..len(c) with c[0] + ... + c[i-1] >= target, len(c) if there is none
SmallestReaching(c, target) ==
    LET S == {i \in 0..LenOf(c) : SumTo(c, i - 1) >= target} IN
    IF S = {} THEN LenOf(c) ELSE CHOOSE i \in S : \A k \in S : i <= k

RECURSIVE ExceedsAdvance(_, _, _)
ExceedsAdvance(c, pn, st) ==
    IF st.a > pn /\ st.i >= 0
    THEN ExceedsAdvance(c, pn, [a |-> st.a - c[st.i], i |-> st.i - 1])
    ELSE st

RECURSIVE ExceedsLoop(_, _, _, _, _)
ExceedsLoop(hs, ps, j, st, values) ==
    IF j < 1 THEN values
    ELSE LET st2 == ExceedsAdvance(hs.counts, (ps[j] * hs.n) \div 100, st) IN
         ExceedsLoop(hs, ps, j - 1, st2, [values EXCEPT ![j] = bucketToValue(hs, st2.i)])

\* C24: the high-to-low scan starts with a = n and i = len(counts)-1, takes
\* the percentiles in descending order, subtracts counts[i] and decrements i
\* only while a > target(p), and answers bucketToValue of the index at which
\* it stopped.
DescendingScanStopsAtTarget ==
    (pc[Main] = "Percentiles" /\ hist.branch = "desc" /\ h.n > 0) =>
        ret[Main] = ExceedsLoop(h, pers[Main], Len(pers[Main]),
                                [a |-> h.n, i |-> LenOf(h.counts) - 1],
                                MakeValues(pers[Main]))

\* C25: within one Percentiles(p_1 <= ... <= p_k) call on a histogram with
\* n > 0 the returned values are nondecreasing in the list position, in the
\* low-to-high and the high-to-low branch, base and windowed variant.
ValuesNondecreasingInCall ==
    (pc[Main] = "Percentiles" /\ Total > 0) =>
        \A j, k \in 1..Len(ret[Main]) : j <= k => FLeq(ret[Main][j], ret[Main][k])

\* a high-to-low call has answered two percentiles with different values
ValuesNondecreasingInCall_Witness ==
    /\ pc[Main] = "Percentiles"
    /\ hist.branch = "desc"
    /\ Total > 0
    /\ Len(ret[Main]) = 2
    /\ ret[Main][1] # ret[Main][2]

---------------------------------------------------------------------------
\* Accumulate on every float64.

\* C26: Accumulate(x) never fails, whatever the value x: valueToBucket returns
\* an index in 0..len(counts)-1, so counts[i]++ is in bounds, the call does
\* not panic, and the lock is released afterwards.
AccumulateNeverFails ==
    /\ \A x \in Samples : valueToBucket(h, x) \in 0..(LenOf(h.counts) - 1)
    /\ pc[Main] = "Accumulate" =>
          /\ ivar[Main] \in 0..(LenOf(h.counts) - 1)
          /\ ~fatal
          /\ h.lock = 0

\* C27: bucketToValue inverts valueToBucket and is the lower edge of the bucket.
\* Whenever Accumulate has mapped its sample x to a non-outlier bucket b,
\* valueToBucket(bucketToValue(b)) is b again and
\* bucketToValue(b) <= x < bucketToValue(b + 1).
BucketToValueIsLowerEdge ==
    \A t \in Threads :
        (pc[t] = "acc_lock" /\ ivar[t] \in 1..(LenOf(h.counts) - 2)) =>
            LET b == ivar[t]
                x == <<2 * xarg[t], 0>> IN
            /\ valueToBucket_Float(h, bucketToValue(h, b)) = b
            /\ FLeq(bucketToValue(h, b), x)
            /\ ~FLeq(bucketToValue(h, b + 1), x)


\* C28: the values of the two outlier buckets lie outside [low, high].
\* After New or NewWindowed has accepted (low, high, num_buckets),
\* bucketToValue(0) < low, and bucketToValue(len(counts)-1) > high where the
\* scale is one whose math.Exp values are tabulated.
OutlierValuesOutsideRange ==
    (pc[Main] \in {"New", "NewWindowed"} /\ ~fatal) =>
        LET low == <<2 * pers[Main][1], 0>>
            hi == <<2 * pers[Main][2], 0>> IN
        /\ ~FLeq(low, bucketToValue(h, 0))
        /\ h.scale = "1.4426950408889634" =>
              ~FLeq(bucketToValue(h, LenOf(h.counts) - 1), hi)


\* C29: the copy of a lock-free Dup is a point-in-time snapshot.
\* Once Dup has loaded every entry, the counts of the copy are counts the
\* original held at some instant of the call (hist.seen), and the n of the
\* copy is the sum of its counts.
DupIsSnapshot ==
    (dup # NoHist /\ \A t \in Threads : pc[t] = "dup_loop" => ivar[t] = LenOf(h.counts)) =>
        /\ dup.counts \in hist.seen
        /\ dup.n = Sum(dup.counts)


\* the scan that produced r added counts[len(counts)/2] to its running total
\* (low-to-high: the index went past the middle bucket)
PassedMiddle(r) ==
    /\ r.indexes # <<>>
    /\ r.indexes[Len(r.indexes)] > LenOf(h.counts) \div 2

NeverEstimated == h.middle_bucket_percentile = <<-1, 1>>

\* C30: middle_bucket_percentile of the mutex-guarded base and windowed histogram.
\* (1) It is always -1 or a value in [0, 100].
\* (2) While it is -1, a step changes it exactly when the step is a Percentiles
\*     call whose scan takes in the middle bucket len(counts)/2.
\* (3) The first Percentiles call on a histogram takes the low-to-high branch.
\* (4) Accumulate, Count, Outliers and Window leave it as it is.
MiddleBucketPercentileLifecycle ==
    /\ [](\/ NeverEstimated
          \/ /\ h.middle_bucket_percentile[1] >= 0
             /\ h.middle_bucket_percentile[1] <= 100 * h.middle_bucket_percentile[2])
    /\ [][NeverEstimated =>
             (~NeverEstimated' <=>
                 (pc'[Main] = "Percentiles" /\ PassedMiddle(ScanOf(pers'[Main]))))]_vars
    /\ [][(pc'[Main] = "Percentiles" /\ ~hist.scanned) => hist'.branch = "asc"]_vars
    /\ [][pc'[Main] \in {"Accumulate", "Count", "Outliers", "Window"} =>
             h'.middle_bucket_percentile = h.middle_bucket_percentile]_vars

\* an estimate strictly between 0 and 100 exists and the call just made went high-to-low
MiddleBucketPercentileLifecycle_Witness ==
    /\ hist.scanned
    /\ hist.branch = "desc"
    /\ h.middle_bucket_percentile[1] > 0
    /\ h.middle_bucket_percentile[1] < 100 * h.middle_bucket_percentile[2]


\* C31: the double buffer of WindowedHistogram.  After NewWindowed and any
\* Window and Accumulate calls, h.counts and h.prev.counts refer to two
\* different arrays, both of length num_buckets + 2, and an Accumulate
\* leaves the contents of h.prev.counts as they were.
DoubleBuffer ==
    /\ [](/\ hist.mem.cur # hist.mem.old
          /\ LenOf(h.counts) = hist.mem.num_buckets + 2
          /\ LenOf(prev.counts) = hist.mem.num_buckets + 2)
    /\ [][pc'[Main] = "Accumulate" => prev'.counts = prev.counts]_vars

\* an Accumulate has just gone into the current buffer after a Window, while
\* the previous buffer holds samples of the window before
DoubleBuffer_Witness ==
    /\ pc[Main] = "Accumulate"
    /\ hist.windows > 0
    /\ Sum(prev.counts) > 0
    /\ Sum(h.counts) > 0
    /\ h.counts = hist.mem.heap[hist.mem.cur]
    /\ prev.counts = hist.mem.heap[hist.mem.old]


====
